---- MODULE Spec2Model ----
(***************************************************************************)
(* DigiStore: checkout pricing, voucher and referral commission, and the   *)
(* local/remote synchronisation of the managed collections.                *)
(*                                                                         *)
(* Strings whose characters matter (codes, ids) are sequences of one-      *)
(* character strings, so that toUpperCase and the UUID test are computed.  *)
(* A value that may be undefined/null is a sequence of length 0 or 1.      *)
(* Amounts that come out of a JavaScript division by 100 are kept exactly, *)
(* in hundredths of the currency unit.                                     *)
(***************************************************************************)
EXTENDS Integers, Sequences, FiniteSets, TLC

\* ------------------------------------------------------------------ bounds
MaxQty == 2          \* largest quantity of one cart line
MaxCartLines == 2    \* largest number of cart lines
MaxCheckouts == 1    \* completed checkouts in one behaviour
MaxUuids == 1        \* identifiers generated in one behaviour
MaxPulls == 2        \* pull cycles started in one behaviour
MaxPushes == 1       \* pushes started in one behaviour

\* ----------------------------------------------------------------- strings
LowerCase == << "a","b","c","d","e","f","g","h","i","j","k","l","m",
                "n","o","p","q","r","s","t","u","v","w","x","y","z" >>
UpperCase == << "A","B","C","D","E","F","G","H","I","J","K","L","M",
                "N","O","P","Q","R","S","T","U","V","W","X","Y","Z" >>

toUpperCaseChar(c) ==
  IF \E i \in 1..26 : LowerCase[i] = c
  THEN UpperCase[CHOOSE i \in 1..26 : LowerCase[i] = c]
  ELSE c

\* String.prototype.toUpperCase
toUpperCase(s) == [i \in 1..Len(s) |-> toUpperCaseChar(s[i])]

HexChars == { "0","1","2","3","4","5","6","7","8","9",
              "a","b","c","d","e","f","A","B","C","D","E","F" }

\* /^[0-9a-f]{8}-[0-9a-f]{4}-[0-9a-f]{4}-[0-9a-f]{4}-[0-9a-f]{12}$/i
isValidUUID(uuid) ==
  /\ Len(uuid) = 36
  /\ \A i \in 1..36 : IF i \in {9, 14, 19, 24} THEN uuid[i] = "-"
                                               ELSE uuid[i] \in HexChars

Digits == << "0","1","2","3","4","5","6","7","8","9" >>

\* an identifier generator that returns a short numeric string
generateShortId(n) == << Digits[(n % 10) + 1] >>

\* the n-th identifier handed out by generateUUID: a version-4 token
\* 'xxxxxxxx-xxxx-4xxx-yxxx-xxxxxxxxxxxx', different for different n
generateUUID(n) ==
  << "0","0","0","0","0","0","0","0","-","0","0","0","0","-",
     "4","0","0","0","-","8","0","0","0","-",
     "0","0","0","0","0","0","0","0","0","0",
     Digits[(n \div 10) + 1], Digits[(n % 10) + 1] >>

\* truthiness of an optional number: undefined and 0 are falsy
Truthy(opt) == opt # <<>> /\ opt[1] # 0

Max(a, b) == IF a >= b THEN a ELSE b

\* Math.round of the quotient n / d, n >= 0, d > 0 (halves round up)
MathRound(n, d) == (2 * n + d) \div (2 * d)

\* ----------------------------------------------------- initial collections
\* '550e8400-e29b-41d4-a716-44665544000' followed by one digit
SeedStem == << "5","5","0","e","8","4","0","0","-","e","2","9","b","-",
               "4","1","d","4","-","a","7","1","6","-",
               "4","4","6","6","5","5","4","4","0","0","0" >>
SeedId(d) == Append(SeedStem, d)

DISKON10 == << "D","I","S","K","O","N","1","0" >>
HEMAT20K == << "H","E","M","A","T","2","0","K" >>
PARTNER1 == << "P","A","R","T","N","E","R","1" >>

initialProducts ==
  << [id |-> SeedId("1"), name |-> "Premium UI Kit",
      price |-> 150000, discountPrice |-> <<99000>>],
     [id |-> SeedId("2"), name |-> "React Dashboard Template",
      price |-> 350000, discountPrice |-> <<299000>>],
     [id |-> SeedId("3"), name |-> "E-book: Mastering React",
      price |-> 75000, discountPrice |-> <<>>] >>

initialVouchers ==
  << [id |-> SeedId("4"), code |-> DISKON10, type |-> "PERCENT",
      value |-> 10, isActive |-> TRUE],
     [id |-> SeedId("5"), code |-> HEMAT20K, type |-> "FIXED",
      value |-> 20000, isActive |-> TRUE] >>

initialAffiliates ==
  << [id |-> SeedId("6"), name |-> "Partner Satu", code |-> PARTNER1,
      password |-> "123", commissionRate |-> 10, totalEarnings |-> 150000,
      isActive |-> TRUE] >>

initialPayments ==
  << [id |-> <<"1">>, type |-> "BANK",     name |-> "Bank BCA"],
     [id |-> <<"2">>, type |-> "BANK",     name |-> "Bank Mandiri"],
     [id |-> <<"3">>, type |-> "E-WALLET", name |-> "DANA"],
     [id |-> <<"4">>, type |-> "QRIS",     name |-> "QRIS Payment"],
     [id |-> <<"5">>, type |-> "TRIPAY",   name |-> "Tripay Automatis"] >>

\* supabaseUrl: env?.VITE_SUPABASE_URL || '', supabaseKey likewise
initialSettings(e) ==
  [storeName |-> "DigiStore Pro", supabaseUrl |-> e.url, supabaseKey |-> e.key]

NoEnv == [url |-> "", key |-> ""]

\* ------------------------------------------------------------------- state
VARIABLES
  settings,          \* App state: StoreSettings
  products,          \* App state: Product[]
  paymentMethods,    \* App state: PaymentMethod[]
  vouchers,          \* App state: Voucher[]
  affiliates,        \* App state: Affiliate[]
  cart,              \* App state: CartItem[]
  referralCode,      \* App state: string | null
  isCloudConnected,  \* App state
  fetchError,        \* App state: string | null
  route,             \* the mounted view: "home", "cart", "admin", "database",
                     \* "login" or "account"
  selectedPayment,   \* CustomerCart state: id of the chosen method, or ''
  voucherCode,       \* CustomerCart state: the voucher input
  appliedVoucher,    \* CustomerCart state: Voucher | null
  store,             \* localStorage, one entry per collection key
  remote,            \* the tables of the remote store
  pulls,             \* the pull cycles (fetchData) started so far
  pushes,            \* the pushes (handleSync) started so far
  formData,          \* AdminDatabase state: the settings form, when mounted
  isSyncing,         \* AdminDatabase state
  uuids,             \* number of identifiers generateUUID has handed out
  checkouts,         \* number of completed checkouts
  last,              \* what the last handler reported (alert, message, log)
  env,               \* import.meta.env: VITE_SUPABASE_URL, VITE_SUPABASE_ANON_KEY
  user               \* App state: the logged-in User | null

vars == << settings, products, paymentMethods, vouchers, affiliates, cart,
           referralCode, isCloudConnected, fetchError, route, selectedPayment,
           voucherCode, appliedVoucher, store, remote, pulls, pushes,
           formData, isSyncing, uuids, checkouts, last, env,
           user >>

appVars    == << settings, products, paymentMethods, vouchers, affiliates >>
cartVars   == << selectedPayment, voucherCode, appliedVoucher >>
syncVars   == << isCloudConnected, fetchError, remote, pulls, pushes,
                 formData, isSyncing, env, user >>

\* ------------------------------------------------------- persistent store
\* DataService.save*: set(key, val); the mirroring effects of App run with
\* the render that follows every change of a collection
Mirror(st, key, val) == [st EXCEPT ![key] = <<val>>]

\* ---------------------------------------------------------------- pricing
\* a unit price that ignores the discount price
unitPriceUndiscounted(item) == item.price

\* item.discountPrice || item.price
unitPrice(item) ==
  IF Truthy(item.discountPrice) THEN item.discountPrice[1] ELSE item.price

\* cart.reduce((sum, item) => sum + unitPrice * item.quantity, 0)
RECURSIVE subTotal(_)
subTotal(c) ==
  IF c = <<>> THEN 0
  ELSE subTotal(SubSeq(c, 1, Len(c) - 1))
       + unitPrice(c[Len(c)]) * c[Len(c)].quantity

\* discountAmount, in hundredths: (subTotal * value) / 100 is not rounded
discountAmount(sub, applied) ==
  IF applied = <<>> THEN 0
  ELSE IF applied[1].type = "PERCENT" THEN sub * applied[1].value
       ELSE applied[1].value * 100

\* a total that is not clamped at zero
totalUnclamped(sub, disc) == sub * 100 - disc

\* total = Math.max(0, subTotal - discountAmount), in hundredths
total(sub, disc) == Max(0, sub * 100 - disc)

\* a commission that drops the fraction instead of rounding
commissionTruncated(sub, rate) == (sub * rate) \div 100

\* Math.round((subTotal * affiliate.commissionRate) / 100)
commissionOf(sub, rate) == MathRound(sub * rate, 100)

\* Array.prototype.find: the element at the least of the indices `hits`
\* (those whose element passes the test), or undefined
Find(seq, hits) ==
  IF hits = {} THEN <<>>
  ELSE << seq[CHOOSE i \in hits : \A j \in hits : i <= j] >>

\* what a handler shows: the alert or order message, and the commission it
\* logs; "none" for a handler that shows nothing
Report(op) ==
  [op |-> op, subTotal |-> 0, discountAmount |-> 0, total |-> 0,
   commission |-> 0, credited |-> <<>>]

\* ------------------------------------------------------- DataService.get
\* get(key, defaultVal): the default when nothing is stored under the key
get(st, key, defaultVal) ==
  IF st[key] = <<>> THEN defaultVal ELSE st[key][1]

\* getSettings: stored settings that miss a credential take it from env
getSettings(st, e) ==
  IF st["ds_settings"] = <<>> THEN initialSettings(e)
  ELSE LET parsed == st["ds_settings"][1] IN
       IF parsed.supabaseUrl = "" \/ parsed.supabaseKey = ""
       THEN [parsed EXCEPT
               !.supabaseUrl = IF e.url # "" THEN e.url ELSE @,
               !.supabaseKey = IF e.key # "" THEN e.key ELSE @]
       ELSE parsed

EmptyStorage ==
  [ds_settings |-> <<>>, ds_products |-> <<>>, ds_payments |-> <<>>,
   ds_vouchers |-> <<>>, ds_affiliates |-> <<>>]

EmptyRemote ==
  [products |-> <<>>, vouchers |-> <<>>, affiliates |-> <<>>,
   store_settings |-> <<>>, payment_methods |-> <<>>]

\* ----------------------------------------------------------- remote client
\* useMemo: createClient(url, key) when both credentials are set, else null
supabaseOf(s) ==
  IF s.supabaseUrl # "" /\ s.supabaseKey # ""
  THEN << [url |-> s.supabaseUrl, key |-> s.supabaseKey] >>
  ELSE <<>>

\* the stages of fetchData, in the order of its awaits
PullStages == << "products", "vouchers", "affiliates", "settings", "payments" >>

\* fetchData as the effect on [supabase] starts it: it holds the client and
\* the settings of the render the effect belongs to; answered lists the
\* answers its requests got so far
NewCycle(s) ==
  [stage |-> "products", settings |-> s, supabase |-> supabaseOf(s)[1],
   answered |-> <<>>]

\* the effect runs when the memoised client is replaced by a client
StartsPull(old, new) ==
  supabaseOf(new) # <<>> /\ supabaseOf(new) # supabaseOf(old)

\* ------------------------------------------------------------------- init
\* App mounts on the localStorage `st0` with the build environment `e` and
\* the remote tables `db`; the mirroring effects save every collection
Mount(st0, e, db) ==
  /\ env = e
  /\ user = <<>>
  /\ settings = getSettings(st0, e)
  /\ products = get(st0, "ds_products", initialProducts)
  /\ paymentMethods = get(st0, "ds_payments", initialPayments)
  /\ vouchers = get(st0, "ds_vouchers", initialVouchers)
  /\ affiliates = get(st0, "ds_affiliates", initialAffiliates)
  /\ cart = <<>>
  /\ referralCode = <<>>
  /\ isCloudConnected = FALSE
  /\ fetchError = <<>>
  /\ route = "home"
  /\ selectedPayment = <<>>
  /\ voucherCode = <<>>
  /\ appliedVoucher = <<>>
  /\ store = [ds_settings |-> << getSettings(st0, e) >>,
              ds_products |-> << get(st0, "ds_products", initialProducts) >>,
              ds_payments |-> << get(st0, "ds_payments", initialPayments) >>,
              ds_vouchers |-> << get(st0, "ds_vouchers", initialVouchers) >>,
              ds_affiliates |-> << get(st0, "ds_affiliates", initialAffiliates) >>]
  /\ remote = db
  /\ pulls = IF supabaseOf(getSettings(st0, e)) # <<>>
             THEN << NewCycle(getSettings(st0, e)) >> ELSE <<>>
  /\ pushes = <<>>
  /\ formData = <<>>
  /\ isSyncing = FALSE
  /\ uuids = 0
  /\ checkouts = 0
  /\ last = Report("none")

\* the page is reloaded: App mounts again on what localStorage holds; the
\* requests of the page that is left get no answer any more
Reload ==
  /\ settings' = getSettings(store, env)
  /\ products' = get(store, "ds_products", initialProducts)
  /\ paymentMethods' = get(store, "ds_payments", initialPayments)
  /\ vouchers' = get(store, "ds_vouchers", initialVouchers)
  /\ affiliates' = get(store, "ds_affiliates", initialAffiliates)
  /\ cart' = <<>>
  /\ referralCode' = <<>>
  /\ isCloudConnected' = FALSE
  /\ fetchError' = <<>>
  /\ route' = "home"
  /\ selectedPayment' = <<>>
  /\ voucherCode' = <<>>
  /\ appliedVoucher' = <<>>
  /\ store' = [store EXCEPT !.ds_settings = << getSettings(store, env) >>]
  /\ pulls' = IF supabaseOf(getSettings(store, env)) # <<>>
              THEN << NewCycle(getSettings(store, env)) >> ELSE <<>>
  /\ pushes' = <<>>
  /\ formData' = <<>>
  /\ isSyncing' = FALSE
  /\ last' = Report("reload")
  /\ user' = <<>>
  /\ UNCHANGED << remote, env, uuids, checkouts >>

\* ------------------------------------------------------------- navigation
\* leaving the cart view unmounts CustomerCart and drops its state; the
\* Database tab mounts AdminDatabase on the settings of that moment, and
\* leaving it unmounts the view a running push was started from
Navigate(to) ==
  /\ to # route
  /\ route' = to
  /\ selectedPayment' = <<>>
  /\ voucherCode' = <<>>
  /\ appliedVoucher' = <<>>
  /\ formData' = IF to = "database" THEN << settings >> ELSE <<>>
  /\ isSyncing' = FALSE
  /\ pushes' = [k \in 1..Len(pushes) |-> [pushes[k] EXCEPT !.mounted = FALSE]]
  /\ last' = Report("none")
  /\ UNCHANGED << appVars, cart, referralCode, store, isCloudConnected,
                  fetchError, remote, pulls, env, user, uuids, checkouts >>

\* the texts a visitor may carry in the landing route's ?ref= parameter
RefInputs ==
  { PARTNER1,
    << "p","a","r","t","n","e","r","1" >>,
    << " ","P","A","R","T","N","E","R","1" >>,
    << "N","O","P","E" >> }

\* CustomerHome: const ref = searchParams.get('ref'); if (ref) setReferralCode(ref)
LandWithRef(ref) ==
  /\ route' = "home"
  /\ referralCode' = IF ref # <<>> THEN <<ref>> ELSE referralCode
  /\ selectedPayment' = <<>>
  /\ voucherCode' = <<>>
  /\ appliedVoucher' = <<>>
  /\ formData' = <<>>
  /\ isSyncing' = FALSE
  /\ pushes' = [k \in 1..Len(pushes) |-> [pushes[k] EXCEPT !.mounted = FALSE]]
  /\ last' = Report("none")
  /\ UNCHANGED << appVars, cart, store, isCloudConnected, fetchError, remote,
                  pulls, env, user, uuids, checkouts >>

\* ------------------------------------------------------------------- cart
\* App.addToCart, called from a ProductCard of CustomerHome
addToCart(product) ==
  /\ route = "home"
  /\ LET existing ==
           Find(cart, { i \in 1..Len(cart) : cart[i].id = product.id }) IN
       /\ IF existing # <<>>
          THEN /\ existing[1].quantity < MaxQty
               /\ cart' = [i \in 1..Len(cart) |->
                             IF cart[i].id = product.id
                             THEN [cart[i] EXCEPT !.quantity = @ + 1]
                             ELSE cart[i]]
          ELSE /\ Len(cart) < MaxCartLines
               /\ cart' = Append(cart,
                            [id |-> product.id, name |-> product.name,
                             price |-> product.price,
                             discountPrice |-> product.discountPrice,
                             quantity |-> 1])
  /\ last' = Report("addToCart")
  /\ UNCHANGED << appVars, referralCode, route, cartVars, store, syncVars,
                  uuids, checkouts >>

\* removeFromCart: setCart(p => p.filter(x => x.id !== id))
removeFromCart(id) ==
  /\ route = "cart"
  /\ cart' = SelectSeq(cart, LAMBDA x : x.id # id)
  /\ last' = Report("none")
  /\ UNCHANGED << appVars, referralCode, route, cartVars, store, syncVars,
                  uuids, checkouts >>

\* the texts a customer may type into the voucher input
VoucherInputs ==
  { <<>>,
    << "d","i","s","k","o","n","1","0" >>,
    HEMAT20K,
    << "N","O","P","E" >> }

\* onChange of the voucher input: setVoucherCode(e.target.value.toUpperCase())
setVoucherCode(text) ==
  /\ route = "cart"
  /\ cart # <<>>
  /\ voucherCode' = toUpperCase(text)
  /\ voucherCode' # voucherCode
  /\ last' = Report("none")
  /\ UNCHANGED << appVars, cart, referralCode, route, selectedPayment,
                  appliedVoucher, store, syncVars, uuids, checkouts >>

\* a lookup that forgets the isActive test
findVoucherAnyStatus(vs, code) ==
  Find(vs, { i \in 1..Len(vs) : vs[i].code = toUpperCase(code) })

\* vouchers.find(v => v.code === voucherCode.toUpperCase() && v.isActive)
findVoucher(vs, code) ==
  Find(vs, { i \in 1..Len(vs) :
               vs[i].code = toUpperCase(code) /\ vs[i].isActive })

\* an apply handler that works only while no fetch error is shown
handleApplyVoucherOnline ==
  /\ route = "cart"
  /\ cart # <<>>
  /\ fetchError = <<>>
  /\ last' = Report(IF voucherCode = <<>> THEN "applyVoucher:empty"
                    ELSE IF findVoucher(vouchers, voucherCode) # <<>>
                    THEN "applyVoucher:used" ELSE "applyVoucher:invalid")
  /\ appliedVoucher' =
       IF voucherCode = <<>> THEN appliedVoucher
       ELSE findVoucher(vouchers, voucherCode)
  /\ UNCHANGED << appVars, cart, referralCode, route, selectedPayment,
                  voucherCode, store, syncVars, uuids, checkouts >>

\* an apply handler that leaves the applied voucher alone when no voucher
\* matches
handleApplyVoucherKeeps ==
  /\ route = "cart"
  /\ cart # <<>>
  /\ last' = Report(IF voucherCode = <<>> THEN "applyVoucher:empty"
                    ELSE IF findVoucher(vouchers, voucherCode) # <<>>
                    THEN "applyVoucher:used" ELSE "applyVoucher:invalid")
  /\ appliedVoucher' =
       IF voucherCode # <<>> /\ findVoucher(vouchers, voucherCode) # <<>>
       THEN findVoucher(vouchers, voucherCode) ELSE appliedVoucher
  /\ UNCHANGED << appVars, cart, referralCode, route, selectedPayment,
                  voucherCode, store, syncVars, uuids, checkouts >>

\* CustomerCart.handleApplyVoucher
handleApplyVoucher ==
  /\ route = "cart"
  /\ cart # <<>>
  /\ IF voucherCode = <<>>
     THEN /\ last' = Report("applyVoucher:empty")
          /\ UNCHANGED appliedVoucher
     ELSE LET found == findVoucher(vouchers, voucherCode) IN
          IF found # <<>>
          THEN /\ appliedVoucher' = found
               /\ last' = Report("applyVoucher:used")
          ELSE /\ appliedVoucher' = <<>>
               /\ last' = Report("applyVoucher:invalid")
  /\ UNCHANGED << appVars, cart, referralCode, route, selectedPayment,
                  voucherCode, store, syncVars, uuids, checkouts >>

\* onClick of a payment method of the cart view: setSelectedPayment(pm.id)
setSelectedPayment(id) ==
  /\ route = "cart"
  /\ cart # <<>>
  /\ selectedPayment # id
  /\ selectedPayment' = id
  /\ last' = Report("none")
  /\ UNCHANGED << appVars, cart, referralCode, route, voucherCode,
                  appliedVoucher, store, syncVars, uuids, checkouts >>

\* --------------------------------------------------------------- checkout
\* affiliates.find(a => a.code === referralCode), under if (referralCode)
findAffiliate(affs, ref) ==
  IF ref # <<>>
  THEN Find(affs, { i \in 1..Len(affs) : affs[i].code = ref[1] })
  ELSE <<>>

\* a test that credits an inactive affiliate too
isCreditedAnyStatus(affiliate) == affiliate # <<>>

\* if (affiliate && affiliate.isActive)
isCredited(affiliate) == affiliate # <<>> /\ affiliate[1].isActive

\* an update that adds the commission twice
updatedAffiliatesTwice(affs, id, commission) ==
  [i \in 1..Len(affs) |->
     IF affs[i].id = id
     THEN [affs[i] EXCEPT !.totalEarnings = @ + 2 * commission]
     ELSE affs[i]]

\* affiliates.map(a => a.id === affiliate.id
\*   ? { ...a, totalEarnings: a.totalEarnings + commission } : a)
updatedAffiliates(affs, id, commission) ==
  [i \in 1..Len(affs) |->
     IF affs[i].id = id
     THEN [affs[i] EXCEPT !.totalEarnings = @ + commission]
     ELSE affs[i]]

\* a checkout whose gateway branch returns without clearing the cart
handleCheckoutTripayKeepsCart ==
  /\ route = "cart"
  /\ cart # <<>>
  /\ IF selectedPayment = <<>>
     THEN /\ last' = Report("checkout:noPayment")
          /\ UNCHANGED << appVars, cart, referralCode, route, cartVars, store,
                          checkouts >>
     ELSE IF Len(cart) = 0
     THEN /\ last' = Report("checkout:emptyCart")
          /\ UNCHANGED << appVars, cart, referralCode, route, cartVars, store,
                          checkouts >>
     ELSE LET paymentMethod ==
                Find(paymentMethods,
                     { i \in 1..Len(paymentMethods) :
                         paymentMethods[i].id = selectedPayment[1] })
              sub == subTotal(cart)
              disc == discountAmount(sub, appliedVoucher)
              affiliate == findAffiliate(affiliates, referralCode)
              credit == isCredited(affiliate)
              commission ==
                IF credit THEN commissionOf(sub, affiliate[1].commissionRate)
                ELSE 0
              newAffiliates ==
                updatedAffiliates(affiliates, affiliate[1].id, commission)
          IN /\ checkouts < MaxCheckouts
             /\ checkouts' = checkouts + 1
             /\ affiliates' = IF credit THEN newAffiliates ELSE affiliates
             /\ store' = IF credit
                         THEN Mirror(store, "ds_affiliates", newAffiliates)
                         ELSE store
             /\ cart' = IF paymentMethod # <<>>
                           /\ paymentMethod[1].type = "TRIPAY"
                        THEN cart ELSE <<>>
             /\ route' = "home"
             /\ selectedPayment' = <<>>
             /\ voucherCode' = <<>>
             /\ appliedVoucher' = <<>>
             /\ last' = [op |-> IF paymentMethod # <<>>
                                   /\ paymentMethod[1].type = "TRIPAY"
                                THEN "checkout:tripay" ELSE "checkout:whatsapp",
                         subTotal |-> sub, discountAmount |-> disc,
                         total |-> total(sub, disc), commission |-> commission,
                         credited |-> IF credit THEN << affiliate[1].id >>
                                      ELSE <<>>]
             /\ UNCHANGED << settings, products, paymentMethods, vouchers,
                             referralCode >>
  /\ UNCHANGED << syncVars, uuids >>

\* CustomerCart.handleCheckout; the button is rendered with a non-empty cart
handleCheckout ==
  /\ route = "cart"
  /\ cart # <<>>
  /\ IF selectedPayment = <<>>
     THEN /\ last' = Report("checkout:noPayment")
          /\ UNCHANGED << appVars, cart, referralCode, route, cartVars, store,
                          checkouts >>
     ELSE IF Len(cart) = 0
     THEN /\ last' = Report("checkout:emptyCart")
          /\ UNCHANGED << appVars, cart, referralCode, route, cartVars, store,
                          checkouts >>
     ELSE LET paymentMethod ==
                Find(paymentMethods,
                     { i \in 1..Len(paymentMethods) :
                         paymentMethods[i].id = selectedPayment[1] })
              sub == subTotal(cart)
              disc == discountAmount(sub, appliedVoucher)
              affiliate == findAffiliate(affiliates, referralCode)
              credit == isCredited(affiliate)
              commission ==
                IF credit THEN commissionOf(sub, affiliate[1].commissionRate)
                ELSE 0
              newAffiliates ==
                updatedAffiliates(affiliates, affiliate[1].id, commission)
          IN /\ checkouts < MaxCheckouts
             /\ checkouts' = checkouts + 1
             /\ affiliates' = IF credit THEN newAffiliates ELSE affiliates
             /\ store' = IF credit
                         THEN Mirror(store, "ds_affiliates", newAffiliates)
                         ELSE store
             /\ cart' = <<>>
             /\ route' = "home"
             /\ selectedPayment' = <<>>
             /\ voucherCode' = <<>>
             /\ appliedVoucher' = <<>>
             /\ last' = [op |-> IF paymentMethod # <<>>
                                   /\ paymentMethod[1].type = "TRIPAY"
                                THEN "checkout:tripay" ELSE "checkout:whatsapp",
                         subTotal |-> sub, discountAmount |-> disc,
                         total |-> total(sub, disc), commission |-> commission,
                         credited |-> IF credit THEN << affiliate[1].id >>
                                      ELSE <<>>]
             /\ UNCHANGED << settings, products, paymentMethods, vouchers,
                             referralCode >>
  /\ UNCHANGED << syncVars, uuids >>

\* the second of two submissions handled from one rendered cart view maps
\* the affiliates of that render, as the first did, not the first's result
secondSubmissionOnResult(closure, afterFirst, id, commission) ==
  updatedAffiliates(afterFirst, id, commission)

secondSubmission(closure, afterFirst, id, commission) ==
  updatedAffiliates(closure, id, commission)

\* handleCheckout called twice from the same render of CustomerCart (both
\* clicks handled before the view is rendered again): each call sets the
\* affiliates, clears the cart and navigates; the guard bounds the clicks
handleCheckoutTwice ==
  /\ route = "cart"
  /\ cart # <<>>
  /\ selectedPayment # <<>>
  /\ LET paymentMethod ==
                Find(paymentMethods,
                     { i \in 1..Len(paymentMethods) :
                         paymentMethods[i].id = selectedPayment[1] })
              sub == subTotal(cart)
              disc == discountAmount(sub, appliedVoucher)
              affiliate == findAffiliate(affiliates, referralCode)
              credit == isCredited(affiliate)
              commission ==
                IF credit THEN commissionOf(sub, affiliate[1].commissionRate)
                ELSE 0
              afterFirst ==
                updatedAffiliates(affiliates, affiliate[1].id, commission)
              newAffiliates ==
                secondSubmission(affiliates, afterFirst, affiliate[1].id,
                                 commission)
          IN /\ checkouts < MaxCheckouts
             /\ checkouts' = checkouts + 2
             /\ affiliates' = IF credit THEN newAffiliates ELSE affiliates
             /\ store' = IF credit
                         THEN Mirror(store, "ds_affiliates", newAffiliates)
                         ELSE store
             /\ cart' = <<>>
             /\ route' = "home"
             /\ selectedPayment' = <<>>
             /\ voucherCode' = <<>>
             /\ appliedVoucher' = <<>>
             /\ last' = [op |-> "checkout:twice",
                         subTotal |-> sub, discountAmount |-> disc,
                         total |-> total(sub, disc), commission |-> commission,
                         credited |-> IF credit THEN << affiliate[1].id >>
                                      ELSE <<>>]
             /\ UNCHANGED << settings, products, paymentMethods, vouchers,
                             referralCode >>
  /\ UNCHANGED << syncVars, uuids >>

\* ------------------------------------------------------------------ login
\* what a visitor may type into the login form: the admin, the partner
\* PARTNER1 in lower case, the partner with a wrong password, nothing
ADMIN == << "a","d","m","i","n" >>

LoginInputs ==
  { [username |-> ADMIN, password |-> "admin"],
    [username |-> << "p","a","r","t","n","e","r","1" >>, password |-> "123"],
    [username |-> PARTNER1, password |-> "000"],
    [username |-> <<>>, password |-> ""] }

\* Login.handleLogin
handleLogin(username, password) ==
  /\ route = "login"
  /\ LET affiliate ==
           Find(affiliates,
                { i \in 1..Len(affiliates) :
                    /\ affiliates[i].code = toUpperCase(username)
                    /\ affiliates[i].password = password })
     IN IF username = ADMIN /\ password = "admin"
        THEN /\ user' = << [role |-> "ADMIN", id |-> <<>>] >>
             /\ route' = "admin"
             /\ last' = Report("login:admin")
        ELSE IF affiliate # <<>>
        THEN IF ~affiliate[1].isActive
             THEN /\ last' = Report("login:inactive")
                  /\ UNCHANGED << user, route >>
             ELSE /\ user' = << [role |-> "AFFILIATE",
                                 id |-> << affiliate[1].id >>] >>
                  /\ route' = "account"
                  /\ last' = Report("login:affiliate")
        ELSE IF username # <<>> /\ password # ""
        THEN /\ user' = << [role |-> "CUSTOMER", id |-> <<>>] >>
             /\ route' = "home"
             /\ last' = Report("login:customer")
        ELSE /\ last' = Report("login:failed")
             /\ UNCHANGED << user, route >>
  /\ UNCHANGED << appVars, cart, referralCode, cartVars, store,
                  isCloudConnected, fetchError, remote, pulls, pushes,
                  formData, isSyncing, env, uuids, checkouts >>

\* logout: setUser(null)
logout ==
  /\ user # <<>>
  /\ user' = <<>>
  /\ last' = Report("logout")
  /\ UNCHANGED << appVars, cart, referralCode, route, cartVars, store,
                  isCloudConnected, fetchError, remote, pulls, pushes,
                  formData, isSyncing, env, uuids, checkouts >>

\* ------------------------------------------------------------ admin forms
\* {...p, ...current}: a key the form holds replaces the record's
Spread(rec, current) ==
  [f \in DOMAIN rec |->
     IF f \in DOMAIN current /\ current[f] # <<>>
     THEN (IF f = "discountPrice" THEN current[f] ELSE current[f][1])
     ELSE rec[f]]

\* what the product form holds when Save is pressed: the product under
\* edit with the discount field cleared (Number('') = 0), a new product,
\* a new product without a name
ProductForms ==
  { [id |-> << p.id >>, name |-> << p.name >>, price |-> << p.price >>,
     discountPrice |-> <<0>>] : p \in { products[i] : i \in 1..Len(products) } }
  \cup { [id |-> <<>>, name |-> <<"Icon Pack">>, price |-> <<12345>>,
          discountPrice |-> <<>>],
         [id |-> <<>>, name |-> <<>>, price |-> <<12345>>,
          discountPrice |-> <<>>] }

\* AdminProducts.handleSave
AdminProductsHandleSave(currentProduct) ==
  /\ route = "admin"
  /\ IF currentProduct.name = <<>> \/ ~Truthy(currentProduct.price)
     THEN /\ last' = Report("saveProduct:rejected")
          /\ UNCHANGED << products, store, uuids >>
     ELSE LET newProducts ==
                IF currentProduct.id # <<>>
                THEN [i \in 1..Len(products) |->
                        IF products[i].id = currentProduct.id[1]
                        THEN Spread(products[i], currentProduct)
                        ELSE products[i]]
                ELSE Append(products,
                       [id |-> generateUUID(uuids),
                        name |-> currentProduct.name[1],
                        price |-> currentProduct.price[1],
                        discountPrice |->
                          IF Truthy(currentProduct.discountPrice)
                          THEN currentProduct.discountPrice ELSE <<>>])
          IN /\ currentProduct.id = <<>> => uuids < MaxUuids
             /\ uuids' = IF currentProduct.id = <<>> THEN uuids + 1 ELSE uuids
             /\ products' = newProducts
             /\ products' # products
             /\ store' = Mirror(store, "ds_products", newProducts)
             /\ last' = Report("saveProduct")
  /\ UNCHANGED << settings, paymentMethods, vouchers, affiliates, cart,
                  referralCode, route, cartVars, syncVars, checkouts >>

\* what the voucher form holds when Save is pressed: a new fixed voucher
\* worth more than any product, a new percent voucher typed in lower case,
\* a form without a value
VoucherForms ==
  { [id |-> <<>>, code |-> << <<"B","I","G">> >>, type |-> <<"FIXED">>,
     value |-> <<500000>>, isActive |-> <<TRUE>>],
    [id |-> <<>>, code |-> << <<"B","I","G">> >>, type |-> <<"FIXED">>,
     value |-> <<>>, isActive |-> <<TRUE>>] }

\* AdminVouchers.handleSave
AdminVouchersHandleSave(currentVoucher) ==
  /\ route = "admin"
  /\ IF currentVoucher.code = <<>> \/ ~Truthy(currentVoucher.value)
     THEN /\ last' = Report("saveVoucher:rejected")
          /\ UNCHANGED << vouchers, store, uuids >>
     ELSE LET newVouchers ==
                IF currentVoucher.id # <<>>
                THEN [i \in 1..Len(vouchers) |->
                        IF vouchers[i].id = currentVoucher.id[1]
                        THEN Spread(vouchers[i], currentVoucher)
                        ELSE vouchers[i]]
                ELSE Append(vouchers,
                       [id |-> generateUUID(uuids),
                        code |-> toUpperCase(currentVoucher.code[1]),
                        type |-> IF currentVoucher.type # <<>>
                                 THEN currentVoucher.type[1] ELSE "FIXED",
                        value |-> currentVoucher.value[1],
                        isActive |-> IF currentVoucher.isActive # <<>>
                                     THEN currentVoucher.isActive[1] ELSE TRUE])
          IN /\ currentVoucher.id = <<>> => uuids < MaxUuids
             /\ uuids' = IF currentVoucher.id = <<>> THEN uuids + 1 ELSE uuids
             /\ vouchers' = newVouchers
             /\ store' = Mirror(store, "ds_vouchers", newVouchers)
             /\ last' = Report("saveVoucher")
  /\ UNCHANGED << settings, products, paymentMethods, affiliates, cart,
                  referralCode, route, cartVars, syncVars, checkouts >>

\* AdminProducts.handleDelete, confirmed
AdminProductsHandleDelete(id) ==
  /\ route = "admin"
  /\ \E i \in 1..Len(products) : products[i].id = id
  /\ products' = SelectSeq(products, LAMBDA p : p.id # id)
  /\ store' = Mirror(store, "ds_products", products')
  /\ last' = Report("deleteProduct")
  /\ UNCHANGED << settings, paymentMethods, vouchers, affiliates, cart,
                  referralCode, route, cartVars, syncVars, uuids, checkouts >>

\* AdminVouchers.handleDelete, confirmed
AdminVouchersHandleDelete(id) ==
  /\ route = "admin"
  /\ \E i \in 1..Len(vouchers) : vouchers[i].id = id
  /\ vouchers' = SelectSeq(vouchers, LAMBDA v : v.id # id)
  /\ store' = Mirror(store, "ds_vouchers", vouchers')
  /\ last' = Report("deleteVoucher")
  /\ UNCHANGED << settings, products, paymentMethods, affiliates, cart,
                  referralCode, route, cartVars, syncVars, uuids, checkouts >>

\* what the partner form holds when Save is pressed: a new partner whose
\* code was typed in lower case, and a form without a password
AffiliateForms ==
  { [id |-> <<>>, name |-> <<"Mitra Dua">>,
     code |-> << <<"m","i","t","r","a","2">> >>, password |-> <<"456">>,
     commissionRate |-> <<5>>],
    [id |-> <<>>, name |-> <<"Mitra Dua">>,
     code |-> << <<"m","i","t","r","a","2">> >>, password |-> <<>>,
     commissionRate |-> <<5>>] }

\* AdminAffiliates.handleSave
AdminAffiliatesHandleSave(currentAff) ==
  /\ route = "admin"
  /\ IF currentAff.name = <<>> \/ currentAff.code = <<>>
        \/ currentAff.password = <<>>
     THEN /\ last' = Report("saveAffiliate:rejected")
          /\ UNCHANGED << affiliates, store, uuids >>
     ELSE LET newAffs ==
                IF currentAff.id # <<>>
                THEN [i \in 1..Len(affiliates) |->
                        IF affiliates[i].id = currentAff.id[1]
                        THEN Spread(affiliates[i], currentAff)
                        ELSE affiliates[i]]
                ELSE Append(affiliates,
                       [id |-> generateUUID(uuids),
                        name |-> currentAff.name[1],
                        code |-> toUpperCase(currentAff.code[1]),
                        password |-> currentAff.password[1],
                        commissionRate |->
                          IF Truthy(currentAff.commissionRate)
                          THEN currentAff.commissionRate[1] ELSE 10,
                        totalEarnings |-> 0,
                        isActive |-> TRUE])
          IN /\ currentAff.id = <<>> => uuids < MaxUuids
             /\ uuids' = IF currentAff.id = <<>> THEN uuids + 1 ELSE uuids
             /\ affiliates' = newAffs
             /\ store' = Mirror(store, "ds_affiliates", newAffs)
             /\ last' = Report("saveAffiliate")
  /\ UNCHANGED << settings, products, paymentMethods, vouchers, cart,
                  referralCode, route, cartVars, syncVars, checkouts >>

\* AdminAffiliates.handleDelete, confirmed
AdminAffiliatesHandleDelete(id) ==
  /\ route = "admin"
  /\ \E i \in 1..Len(affiliates) : affiliates[i].id = id
  /\ affiliates' = SelectSeq(affiliates, LAMBDA a : a.id # id)
  /\ store' = Mirror(store, "ds_affiliates", affiliates')
  /\ last' = Report("deleteAffiliate")
  /\ UNCHANGED << settings, products, paymentMethods, vouchers, cart,
                  referralCode, route, cartVars, syncVars, uuids, checkouts >>

\* a settings save that also sends the settings row to the remote store
AdminSettingsHandleSaveUploads(name) ==
  /\ route = "admin"
  /\ settings' = [settings EXCEPT !.storeName = name]
  /\ settings' # settings
  /\ store' = Mirror(Mirror(store, "ds_settings", settings'),
                     "ds_payments", paymentMethods)
  /\ remote' = [remote EXCEPT !.store_settings =
                  << [id |-> "settings_01", store_name |-> name] >>]
  /\ last' = Report("saveSettings")
  /\ UNCHANGED << products, paymentMethods, vouchers, affiliates, cart,
                  referralCode, route, cartVars, isCloudConnected, fetchError,
                  pulls, pushes, formData, isSyncing, env, user, uuids, checkouts >>

\* AdminSettings.handleSave after typing a store name: the form follows the
\* settings and the payment methods by its effects, so it saves them with
\* the typed name
AdminSettingsHandleSave(name) ==
  /\ route = "admin"
  /\ settings' = [settings EXCEPT !.storeName = name]
  /\ settings' # settings
  /\ store' = Mirror(Mirror(store, "ds_settings", settings'),
                     "ds_payments", paymentMethods)
  /\ last' = Report("saveSettings")
  /\ UNCHANGED << products, paymentMethods, vouchers, affiliates, cart,
                  referralCode, route, cartVars, syncVars, uuids, checkouts >>

\* ------------------------------------------------------------------- pull
\* the row mappings of fetchData: snake_case columns to the app's fields
mappedProducts(rows) ==
  [i \in 1..Len(rows) |->
    [id |-> rows[i].id, name |-> rows[i].name, price |-> rows[i].price,
     discountPrice |-> IF Truthy(rows[i].discount_price)
                       THEN rows[i].discount_price ELSE <<>>]]

mappedVouchers(rows) ==
  [i \in 1..Len(rows) |->
    [id |-> rows[i].id, code |-> rows[i].code, type |-> rows[i].type,
     value |-> rows[i].value, isActive |-> rows[i].is_active]]

mappedAffiliates(rows) ==
  [i \in 1..Len(rows) |->
    [id |-> rows[i].id, name |-> rows[i].name, code |-> rows[i].code,
     password |-> rows[i].password,
     commissionRate |-> rows[i].commission_rate,
     totalEarnings |-> rows[i].total_earnings,
     isActive |-> rows[i].is_active]]

mappedPayments(rows) ==
  [i \in 1..Len(rows) |->
    [id |-> rows[i].id, type |-> rows[i].type, name |-> rows[i].name]]

\* newSettings: the settings of the render fetchData was created in, with the
\* store fields of the remote row
newSettings(closure, row) == [closure EXCEPT !.storeName = row.store_name]

\* .single(): the row when the table holds exactly one, else no data
single(rows) == IF Len(rows) = 1 THEN << rows[1] >> ELSE <<>>

StageAfter(stage) ==
  CASE stage = "products"   -> "vouchers"
    [] stage = "vouchers"   -> "affiliates"
    [] stage = "affiliates" -> "settings"
    [] stage = "settings"   -> "payments"
    [] stage = "payments"   -> "done"

\* one await of fetchData resolves: ok is the answer of the request
PullStep(k, ok) ==
  /\ k \in 1..Len(pulls)
  /\ pulls[k].stage \in { PullStages[i] : i \in 1..Len(PullStages) }
  /\ LET cycle == pulls[k]
         stage == cycle.stage
         row   == single(remote.store_settings)
         thrown == ~ok /\ stage # "settings"
         merged == newSettings(cycle.settings, row[1])
         applies == ok /\ stage = "settings" /\ row # <<>>
         restarts == applies /\ StartsPull(settings, merged)
         stepped == [pulls EXCEPT
                       ![k].stage = IF thrown THEN "failed"
                                    ELSE StageAfter(stage),
                       ![k].answered = Append(@, ok)]
     IN
     /\ restarts => Len(pulls) < MaxPulls
     /\ pulls' = IF restarts THEN Append(stepped, NewCycle(merged))
                 ELSE stepped
     /\ fetchError' = IF thrown THEN << "error" >>
                      ELSE IF restarts THEN <<>> ELSE fetchError
     /\ products' = IF ok /\ stage = "products"
                    THEN mappedProducts(remote.products) ELSE products
     /\ vouchers' = IF ok /\ stage = "vouchers"
                    THEN mappedVouchers(remote.vouchers) ELSE vouchers
     /\ affiliates' = IF ok /\ stage = "affiliates"
                      THEN mappedAffiliates(remote.affiliates) ELSE affiliates
     /\ settings' = IF applies THEN merged ELSE settings
     /\ paymentMethods' =
          IF ok /\ stage = "payments" /\ Len(remote.payment_methods) > 0
          THEN mappedPayments(remote.payment_methods) ELSE paymentMethods
     /\ isCloudConnected' =
          IF ok /\ stage = "payments" THEN TRUE ELSE isCloudConnected
     /\ store' = [store EXCEPT
                    !["ds_products"]   = << products' >>,
                    !["ds_vouchers"]   = << vouchers' >>,
                    !["ds_affiliates"] = << affiliates' >>,
                    !["ds_settings"]   = << settings' >>,
                    !["ds_payments"]   = << paymentMethods' >>]
     /\ last' = Report(IF thrown THEN "pull:failed"
                       ELSE IF stage = "payments" THEN "pull:done"
                       ELSE "pull:step")
  /\ UNCHANGED << cart, referralCode, route, cartVars, remote, pushes,
                  formData, isSyncing, env, user, uuids, checkouts >>

\* ---------------------------------------------------------- configuration
\* the credentials an admin may type into the Database form
Credentials ==
  { [url |-> "", key |-> ""],
    [url |-> "https://shop.supabase.co", key |-> "anon-1"],
    [url |-> "https://shop.supabase.co", key |-> "anon-2"] }

\* AdminDatabase: "Simpan Konfigurasi" after typing url and key into the form
SaveConfig(c) ==
  /\ route = "database"
  /\ formData # <<>>
  /\ LET form == [formData[1] EXCEPT !.supabaseUrl = c.url,
                                     !.supabaseKey = c.key]
     IN
     /\ form # settings
     /\ StartsPull(settings, form) => Len(pulls) < MaxPulls
     /\ formData' = << form >>
     /\ settings' = form
     /\ store' = Mirror(store, "ds_settings", form)
     /\ pulls' = IF StartsPull(settings, form)
                 THEN Append(pulls, NewCycle(form)) ELSE pulls
     /\ fetchError' = IF StartsPull(settings, form) THEN <<>> ELSE fetchError
  /\ last' = Report("saveConfig")
  /\ UNCHANGED << products, paymentMethods, vouchers, affiliates, cart,
                  referralCode, route, cartVars, isCloudConnected, remote,
                  pushes, isSyncing, env, user, uuids, checkouts >>

\* ------------------------------------------------------------------- push
\* a map that leaves every id as it is
ensureUuidAllKeepsIds(items, n) == [fixed |-> items, uuids |-> n]

\* products.map(ensureUuid) with n identifiers generated before: the fixed
\* collection and the number of identifiers generated after
RECURSIVE ensureUuidAll(_, _)
ensureUuidAll(items, n) ==
  IF items = <<>> THEN [fixed |-> <<>>, uuids |-> n]
  ELSE LET item == Head(items)
           keep == isValidUUID(item.id)
           head == IF keep THEN item ELSE [item EXCEPT !.id = generateUUID(n)]
           rest == ensureUuidAll(Tail(items), IF keep THEN n ELSE n + 1)
       IN [fixed |-> << head >> \o rest.fixed, uuids |-> rest.uuids]

\* the rows handleSync sends
dbProducts(fixed) ==
  [i \in 1..Len(fixed) |->
    [id |-> fixed[i].id, name |-> fixed[i].name, price |-> fixed[i].price,
     discount_price |-> fixed[i].discountPrice]]

dbVouchers(fixed) ==
  [i \in 1..Len(fixed) |->
    [id |-> fixed[i].id, code |-> fixed[i].code, type |-> fixed[i].type,
     value |-> fixed[i].value, is_active |-> fixed[i].isActive]]

dbAffs(fixed) ==
  [i \in 1..Len(fixed) |->
    [id |-> fixed[i].id, name |-> fixed[i].name, code |-> fixed[i].code,
     password |-> fixed[i].password,
     commission_rate |-> fixed[i].commissionRate,
     total_earnings |-> fixed[i].totalEarnings,
     is_active |-> fixed[i].isActive]]

dbSettings(s) == << [id |-> "settings_01", store_name |-> s.storeName] >>

dbPayments(fixed) ==
  [i \in 1..Len(fixed) |->
    [id |-> fixed[i].id, type |-> fixed[i].type, name |-> fixed[i].name]]

\* upsert(rows): a row replaces the stored row of its id, else it is added
RECURSIVE upsert(_, _)
upsert(table, rows) ==
  IF rows = <<>> THEN table
  ELSE LET row  == Head(rows)
           hits == { i \in 1..Len(table) : table[i].id = row.id }
           next == IF hits = {} THEN Append(table, row)
                   ELSE [i \in 1..Len(table) |->
                           IF i \in hits THEN row ELSE table[i]]
       IN upsert(next, Tail(rows))

\* the table each stage of handleSync writes
TableOf(stage) ==
  CASE stage = "products"   -> "products"
    [] stage = "vouchers"   -> "vouchers"
    [] stage = "affiliates" -> "affiliates"
    [] stage = "settings"   -> "store_settings"
    [] stage = "payments"   -> "payment_methods"

\* the collection of the click's render that a stage uploads
Captured(push, stage) ==
  CASE stage = "products"   -> push.products
    [] stage = "vouchers"   -> push.vouchers
    [] stage = "affiliates" -> push.affiliates
    [] stage = "payments"   -> push.paymentMethods
    [] OTHER                -> <<>>

\* handleSync skips a collection that was empty at the click; the settings
\* row is always sent
RECURSIVE Awaiting(_, _)
Awaiting(push, stage) ==
  IF stage = "done" \/ stage = "settings" \/ Captured(push, stage) # <<>>
  THEN stage
  ELSE Awaiting(push, StageAfter(stage))

\* handleSync runs up to the await of `stage`: the collection of the click's
\* render, with repaired ids, is written back and its rows are sent
RunTo(push, stage, k) ==
  LET fix  == ensureUuidAll(Captured(push, stage), uuids)
      rows == CASE stage = "products"   -> dbProducts(fix.fixed)
                [] stage = "vouchers"   -> dbVouchers(fix.fixed)
                [] stage = "affiliates" -> dbAffs(fix.fixed)
                [] stage = "settings"   -> dbSettings(push.settings)
                [] stage = "payments"   -> dbPayments(fix.fixed)
                [] OTHER                -> <<>>
      next == [push EXCEPT !.stage = stage, !.rows = rows]
  IN
  /\ pushes' = IF k > Len(pushes) THEN Append(pushes, next)
               ELSE [pushes EXCEPT ![k] = next]
  /\ uuids' = fix.uuids
  /\ products' = IF stage = "products" THEN fix.fixed ELSE products
  /\ vouchers' = IF stage = "vouchers" THEN fix.fixed ELSE vouchers
  /\ affiliates' = IF stage = "affiliates" THEN fix.fixed ELSE affiliates
  /\ paymentMethods' = IF stage = "payments" THEN fix.fixed
                       ELSE paymentMethods
  /\ store' = [store EXCEPT
                 !["ds_products"]   = << products' >>,
                 !["ds_vouchers"]   = << vouchers' >>,
                 !["ds_affiliates"] = << affiliates' >>,
                 !["ds_payments"]   = << paymentMethods' >>]

\* AdminDatabase: the upload button, confirmed
handleSync ==
  /\ route = "database"
  /\ ~isSyncing
  /\ supabaseOf(settings) # <<>>
  /\ Len(pushes) < MaxPushes
  /\ LET push == [stage |-> "start", rows |-> <<>>, mounted |-> TRUE,
                  products |-> products, vouchers |-> vouchers,
                  affiliates |-> affiliates, settings |-> settings,
                  paymentMethods |-> paymentMethods]
     IN RunTo(push, Awaiting(push, "products"), Len(pushes) + 1)
  /\ isSyncing' = TRUE
  /\ last' = Report("push:start")
  /\ UNCHANGED << settings, cart, referralCode, route, cartVars,
                  isCloudConnected, fetchError, remote, pulls, formData,
                  env, user, checkouts >>

\* handleSync has returned: nothing is awaited and the collections of the
\* click's render are released with its closure
Returned(push, stage) ==
  [push EXCEPT !.stage = stage, !.rows = <<>>, !.products = <<>>,
               !.vouchers = <<>>, !.affiliates = <<>>,
               !.paymentMethods = <<>>]

\* a push that goes on after an upsert reported an error
EndsAtLastOnly(ok, then) == then = "done"

\* if (error) throw error: the push ends at the first upsert that reports an
\* error, else after the last one
Ends(ok, then) == ~ok \/ then = "done"

\* one upsert of handleSync resolves: ok is the answer of the request
PushStep(k, ok) ==
  /\ k \in 1..Len(pushes)
  /\ pushes[k].stage \in { PullStages[i] : i \in 1..Len(PullStages) }
  /\ LET push  == pushes[k]
         table == TableOf(push.stage)
         then  == Awaiting(push, StageAfter(push.stage))
         ends  == Ends(ok, then)
     IN
     /\ remote' = IF ok
                  THEN [remote EXCEPT ![table] = upsert(remote[table], push.rows)]
                  ELSE remote
     /\ IF ends
        THEN /\ pushes' = [pushes EXCEPT ![k] =
                             Returned(push, IF ok THEN "done" ELSE "failed")]
             /\ UNCHANGED << products, vouchers, affiliates, paymentMethods,
                             store, uuids >>
        ELSE RunTo(push, then, k)
     /\ isSyncing' = IF ends /\ push.mounted THEN FALSE ELSE isSyncing
     /\ last' = Report(IF ~ok THEN "push:failed"
                       ELSE IF ends THEN "push:done" ELSE "push:step")
  /\ UNCHANGED << settings, cart, referralCode, route, cartVars,
                  isCloudConnected, fetchError, pulls, formData, env, user,
                  checkouts >>

\* ---------------------------------------------------------- specifications
MITRA2 == << "M","I","T","R","A","2" >>
BIG == << "B","I","G" >>

\* a localStorage left by an earlier session that pulled from the remote
\* store: an inactive voucher, a voucher worth more than a cart, a price
\* that is no multiple of 100, an inactive affiliate
ReturningStorage ==
  [ds_settings |-> << initialSettings(NoEnv) >>,
   ds_products |-> <<
     << initialProducts[3],
        [id |-> generateUUID(99), name |-> "Icon Pack", price |-> 12345,
         discountPrice |-> <<>>] >> >>,
   ds_payments |-> << initialPayments >>,
   ds_vouchers |-> <<
     << initialVouchers[1],
        [initialVouchers[2] EXCEPT !.isActive = FALSE],
        [id |-> generateUUID(98), code |-> BIG, type |-> "FIXED",
         value |-> 500000, isActive |-> TRUE] >> >>,
   ds_affiliates |-> <<
     << [initialAffiliates[1] EXCEPT !.totalEarnings = 174900],
        [id |-> generateUUID(97), name |-> "Mitra Dua", code |-> MITRA2,
         password |-> "456", commissionRate |-> 5, totalEarnings |-> 0,
         isActive |-> FALSE] >> >>]

Elements(seq) == { seq[i] : i \in 1..Len(seq) }

\* the payment methods a customer picks among: the first and the last listed
PaymentPicks == { paymentMethods[1].id, paymentMethods[Len(paymentMethods)].id }

\* the product form with the discount field of a product cleared, and a
\* form without a name
EditForms == { f \in ProductForms : f.id # <<>> \/ f.name = <<>> }

\* pricing: the cart, the voucher input and the product admin
InitPricing ==
  \E st0 \in { EmptyStorage, ReturningStorage } : Mount(st0, NoEnv, EmptyRemote)

NextPricing ==
  \/ \E to \in { "home", "cart", "admin" } : Navigate(to)
  \/ \E p \in Elements(products) : addToCart(p)
  \/ \E item \in Elements(cart) : removeFromCart(item.id)
  \/ \E text \in VoucherInputs \cup { BIG } : setVoucherCode(text)
  \/ handleApplyVoucher
  \/ \E form \in EditForms : AdminProductsHandleSave(form)

SpecPricing == InitPricing /\ [][NextPricing]_vars

\* referral: landing with a code, filling the cart, checkout
InitReferral ==
  \E st0 \in { EmptyStorage, ReturningStorage } : Mount(st0, NoEnv, EmptyRemote)

NextReferral ==
  \/ \E to \in { "home", "cart" } : Navigate(to)
  \/ \E ref \in RefInputs \cup { MITRA2 } : LandWithRef(ref)
  \/ \E p \in { products[1], products[Len(products)] } : addToCart(p)
  \/ setVoucherCode(DISKON10)
  \/ handleApplyVoucher
  \/ \E id \in PaymentPicks : setSelectedPayment(<<id>>)
  \/ handleCheckout

SpecReferral == InitReferral /\ [][NextReferral]_vars

\* a build whose environment carries the credentials of the remote project
CloudEnv == [url |-> "https://shop.supabase.co", key |-> "anon-1"]

\* a remote project that was filled by an upload some time ago: the partner's
\* earnings as they were then, a product whose discount price is 0, one
\* payment method
UploadedRemote ==
  [products |-> <<
     [id |-> SeedId("1"), name |-> "Premium UI Kit", price |-> 150000,
      discount_price |-> <<99000>>],
     [id |-> SeedId("3"), name |-> "E-book: Mastering React", price |-> 75000,
      discount_price |-> <<0>>] >>,
   vouchers |-> <<
     [id |-> SeedId("4"), code |-> DISKON10, type |-> "PERCENT",
      value |-> 10, is_active |-> TRUE] >>,
   affiliates |-> <<
     [id |-> SeedId("6"), name |-> "Partner Satu", code |-> PARTNER1,
      password |-> "123", commission_rate |-> 10, total_earnings |-> 100000,
      is_active |-> TRUE] >>,
   store_settings |-> << [id |-> "settings_01", store_name |-> "Toko Cloud"] >>,
   payment_methods |-> <<
     [id |-> SeedId("7"), type |-> "QRIS", name |-> "QRIS Toko"] >>]

\* a remote project whose payment_methods table was never filled
NoPaymentsRemote == [UploadedRemote EXCEPT !.payment_methods = <<>>]

\* the remote project: freshly created, or filled by an earlier upload
Remotes == { EmptyRemote, UploadedRemote }

\* a referred purchase of one unit of the first product, paid by the first
\* method
Purchase ==
  \/ LandWithRef(PARTNER1)
  \/ products # <<>> /\ cart = <<>> /\ addToCart(products[1])
  \/ paymentMethods # <<>> /\ setSelectedPayment(<< paymentMethods[1].id >>)
  \/ handleCheckout

\* pull: the credentials and the pull cycles they start
InitPull ==
  \E e \in { NoEnv, CloudEnv }, db \in Remotes : Mount(EmptyStorage, e, db)

NextPull ==
  \/ \E to \in { "home", "database" } : Navigate(to)
  \/ \E c \in Credentials : SaveConfig(c)
  \/ \E k \in 1..Len(pulls), ok \in BOOLEAN : PullStep(k, ok)

SpecPull == InitPull /\ [][NextPull]_vars

\* earnings: a referred purchase beside the pull cycle of the mount and an
\* upload
InitEarnings == Mount(EmptyStorage, CloudEnv, UploadedRemote)

NextEarnings ==
  \/ \E to \in { "home", "cart", "database" } : Navigate(to)
  \/ \E k \in 1..Len(pulls), ok \in BOOLEAN : PullStep(k, ok)
  \/ handleSync
  \/ \E k \in 1..Len(pushes), ok \in BOOLEAN : PushStep(k, ok)
  \/ Purchase

SpecEarnings == InitEarnings /\ [][NextEarnings]_vars

\* push: the upload beside the pull cycle of the mount
InitPush == \E db \in Remotes : Mount(EmptyStorage, CloudEnv, db)

NextPush ==
  \/ \E to \in { "home", "database" } : Navigate(to)
  \/ \E k \in 1..Len(pulls), ok \in BOOLEAN : PullStep(k, ok)
  \/ handleSync
  \/ \E k \in 1..Len(pushes), ok \in BOOLEAN : PushStep(k, ok)

SpecPush == InitPush /\ [][NextPush]_vars

\* the admin handlers on the first record of each collection and on the
\* forms of a new voucher and a new partner
AdminEdits ==
  \/ products # <<>> /\ AdminProductsHandleDelete(products[1].id)
  \/ vouchers # <<>> /\ AdminVouchersHandleDelete(vouchers[1].id)
  \/ affiliates # <<>> /\ AdminAffiliatesHandleDelete(affiliates[1].id)
  \/ \E form \in VoucherForms : AdminVouchersHandleSave(form)
  \/ \E form \in AffiliateForms : AdminAffiliatesHandleSave(form)
  \/ AdminSettingsHandleSave("Toko Baru")

\* an admin deletes the first product, saves a new voucher, renames the store
FewEdits ==
  \/ products # <<>> /\ AdminProductsHandleDelete(products[1].id)
  \/ \E form \in VoucherForms : AdminVouchersHandleSave(form)
  \/ AdminSettingsHandleSave("Toko Baru")

\* no upload is running
NoUpload == \A k \in 1..Len(pushes) : pushes[k].stage \in { "done", "failed" }

\* no pull cycle is running
NoPull == \A k \in 1..Len(pulls) : pulls[k].stage \in { "done", "failed" }

\* store: the handlers that change a managed collection, one after another:
\* the pull cycle of the mount ends before the shop is used, and the shop is
\* left alone during an upload
InitStore == Mount(EmptyStorage, CloudEnv, UploadedRemote)

NextStore ==
  \/ \E to \in { "home", "cart", "admin", "database" } : Navigate(to)
  \/ \E k \in 1..Len(pulls), ok \in BOOLEAN : PullStep(k, ok)
  \/ NoPull /\ handleSync
  \/ \E k \in 1..Len(pushes), ok \in BOOLEAN : PushStep(k, ok)
  \/ NoPull /\ NoUpload /\ Purchase
  \/ NoPull /\ NoUpload /\ FewEdits

SpecStore == InitStore /\ [][NextStore]_vars

\* DataService on its own: its save functions called with values of each key
SettingsValues ==
  { [storeName |-> n, supabaseUrl |-> c.url, supabaseKey |-> c.key] :
      n \in { "DigiStore Pro", "Toko Baru" },
      c \in Credentials \cup { [url |-> "", key |-> "anon-2"] } }

ProductLists == { <<>>, initialProducts, ReturningStorage.ds_products[1] }
PaymentLists == { <<>>, initialPayments }
VoucherLists == { <<>>, initialVouchers, ReturningStorage.ds_vouchers[1] }
AffiliateLists == { <<>>, initialAffiliates, ReturningStorage.ds_affiliates[1] }

\* DataService.save*: set(key, val) stores JSON.stringify(val) under the key
saveSettings(s) ==
  /\ store' = Mirror(store, "ds_settings", s)
  /\ last' = Report("saveSettings")
  /\ UNCHANGED << appVars, cart, referralCode, route, cartVars, syncVars,
                  uuids, checkouts >>

saveProducts(ps) ==
  /\ store' = Mirror(store, "ds_products", ps)
  /\ last' = Report("saveProducts")
  /\ UNCHANGED << appVars, cart, referralCode, route, cartVars, syncVars,
                  uuids, checkouts >>

savePayments(ms) ==
  /\ store' = Mirror(store, "ds_payments", ms)
  /\ last' = Report("savePayments")
  /\ UNCHANGED << appVars, cart, referralCode, route, cartVars, syncVars,
                  uuids, checkouts >>

saveVouchers(vs) ==
  /\ store' = Mirror(store, "ds_vouchers", vs)
  /\ last' = Report("saveVouchers")
  /\ UNCHANGED << appVars, cart, referralCode, route, cartVars, syncVars,
                  uuids, checkouts >>

saveAffiliates(as) ==
  /\ store' = Mirror(store, "ds_affiliates", as)
  /\ last' = Report("saveAffiliates")
  /\ UNCHANGED << appVars, cart, referralCode, route, cartVars, syncVars,
                  uuids, checkouts >>

InitDataService ==
  \E st0 \in { EmptyStorage, ReturningStorage }, e \in { NoEnv, CloudEnv } :
    Mount(st0, e, EmptyRemote)

NextDataService ==
  \/ \E s \in SettingsValues : saveSettings(s)
  \/ \E ps \in ProductLists : saveProducts(ps)
  \/ \E ms \in PaymentLists : savePayments(ms)
  \/ \E vs \in VoucherLists : saveVouchers(vs)
  \/ \E as \in AffiliateLists : saveAffiliates(as)

SpecDataService == InitDataService /\ [][NextDataService]_vars

\* validation: the cart view and the admin forms, with complete and
\* incomplete inputs
InitValidation ==
  \E st0 \in { EmptyStorage, ReturningStorage } : Mount(st0, NoEnv, EmptyRemote)

NextValidation ==
  \/ \E to \in { "home", "cart", "admin" } : Navigate(to)
  \/ products # <<>> /\ cart = <<>> /\ addToCart(products[1])
  \/ \E text \in VoucherInputs : setVoucherCode(text)
  \/ handleApplyVoucher
  \/ paymentMethods # <<>> /\ setSelectedPayment(<< paymentMethods[1].id >>)
  \/ handleCheckout
  \/ \E form \in EditForms : AdminProductsHandleSave(form)
  \/ \E form \in VoucherForms : AdminVouchersHandleSave(form)
  \/ \E form \in AffiliateForms : AdminAffiliatesHandleSave(form)

SpecValidation == InitValidation /\ [][NextValidation]_vars

\* the voucher admin: what the form holds when Save is pressed on a voucher
\* under edit (its code retyped as DISKON10, its switch on or off)
\* and on a new voucher typed as 'diskon10'
VoucherEditForms ==
  { [id |-> << v.id >>, code |-> << c >>, type |-> << v.type >>,
     value |-> << v.value >>, isActive |-> << b >>] :
      v \in Elements(vouchers), c \in { DISKON10 }, b \in BOOLEAN }
  \cup { [id |-> <<>>, code |-> << << "d","i","s","k","o","n","1","0" >> >>,
          type |-> <<"FIXED">>, value |-> <<5000>>, isActive |-> <<>>] }

InitVouchers ==
  \E st0 \in { EmptyStorage, ReturningStorage }, e \in { NoEnv, CloudEnv } :
    Mount(st0, e, UploadedRemote)

NextVouchers ==
  \/ \E to \in { "home", "admin" } : Navigate(to)
  \/ \E form \in VoucherForms \cup VoucherEditForms :
       AdminVouchersHandleSave(form)
  \/ \E v \in Elements(vouchers) : AdminVouchersHandleDelete(v.id)
  \/ \E k \in 1..Len(pulls), ok \in BOOLEAN : PullStep(k, ok)

SpecVouchers == InitVouchers /\ [][NextVouchers]_vars

\* remote tables in which the voucher DISKON10 has been switched off
ExpiredRemote == [UploadedRemote EXCEPT !.vouchers[1].is_active = FALSE]

\* shopping while the pull of the mount runs, fails or succeeds, and without
\* credentials
InitShopping ==
  \E e \in { NoEnv, CloudEnv }, db \in { UploadedRemote, ExpiredRemote } :
    Mount(EmptyStorage, e, db)

NextShopping ==
  \/ \E to \in { "home", "cart" } : Navigate(to)
  \/ products # <<>> /\ cart = <<>> /\ addToCart(products[1])
  \/ \E text \in { DISKON10, << "N","O","P","E" >> } : setVoucherCode(text)
  \/ handleApplyVoucher
  \/ paymentMethods # <<>> /\ setSelectedPayment(<< paymentMethods[1].id >>)
  \/ handleCheckout
  \/ \E k \in 1..Len(pulls), ok \in BOOLEAN : PullStep(k, ok)

SpecShopping == InitShopping /\ [][NextShopping]_vars

\* the cart: filling and emptying it, checkout by either branch, reload
InitCart ==
  \E st0 \in { EmptyStorage, ReturningStorage } : Mount(st0, NoEnv, EmptyRemote)

NextCart ==
  \/ \E to \in { "home", "cart" } : Navigate(to)
  \/ LandWithRef(PARTNER1)
  \/ \E p \in { products[1], products[Len(products)] } : addToCart(p)
  \/ \E item \in Elements(cart) : removeFromCart(item.id)
  \/ \E id \in PaymentPicks : setSelectedPayment(<<id>>)
  \/ handleCheckout
  \/ Reload

SpecCart == InitCart /\ [][NextCart]_vars

\* a referred cart submitted once, or twice from the same rendered view
InitDoubleClick ==
  \E st0 \in { EmptyStorage, ReturningStorage } : Mount(st0, NoEnv, EmptyRemote)

NextDoubleClick ==
  \/ \E to \in { "home", "cart" } : Navigate(to)
  \/ \E ref \in { PARTNER1, MITRA2 } : LandWithRef(ref)
  \/ \E p \in { products[1], products[Len(products)] } : addToCart(p)
  \/ \E id \in PaymentPicks : setSelectedPayment(<<id>>)
  \/ handleCheckout
  \/ handleCheckoutTwice

SpecDoubleClick == InitDoubleClick /\ [][NextDoubleClick]_vars

\* overwrite: the admin deletes the first product, uploads, and reloads the
\* page, one handler after the other
InitOverwrite == Mount(EmptyStorage, CloudEnv, UploadedRemote)

NextOverwrite ==
  \/ \E to \in { "home", "admin", "database" } : Navigate(to)
  \/ \E k \in 1..Len(pulls), ok \in BOOLEAN : PullStep(k, ok)
  \/ /\ NoPull /\ NoUpload /\ Len(products) > 1
     /\ AdminProductsHandleDelete(products[1].id)
  \/ NoPull /\ handleSync
  \/ \E k \in 1..Len(pushes), ok \in BOOLEAN : PushStep(k, ok)
  \/ NoPull /\ NoUpload /\ pushes # <<>> /\ Reload

SpecOverwrite == InitOverwrite /\ [][NextOverwrite]_vars

\* a browser whose localStorage was saved by the build that numbered its
\* seed records '1', '2', ...
LegacyStorage ==
  [EmptyStorage EXCEPT
     !.ds_affiliates = << << [initialAffiliates[1] EXCEPT !.id = <<"1">>] >> >>]

\* the partner account: login and logout while the pull of the mount and an
\* upload run
InitAccount ==
  \E st0 \in { EmptyStorage, LegacyStorage } :
    Mount(st0, CloudEnv, UploadedRemote)

NextAccount ==
  \/ \E to \in { "home", "login", "account", "database" } : Navigate(to)
  \/ \E in \in LoginInputs : handleLogin(in.username, in.password)
  \/ logout
  \/ \E k \in 1..Len(pulls), ok \in BOOLEAN : PullStep(k, ok)
  \/ user # <<>> /\ user[1].role = "ADMIN" /\ handleSync
  \/ \E k \in 1..Len(pushes), ok \in BOOLEAN : PushStep(k, ok)

SpecAccount == InitAccount /\ [][NextAccount]_vars

\* ------------------------------------------------------------------ claims
\* the values the cart view renders
RenderedSubTotal == subTotal(cart)
RenderedDiscount == discountAmount(subTotal(cart), appliedVoucher)
RenderedTotal == total(subTotal(cart), RenderedDiscount)

\* sum of (discountPrice ?? price) * quantity
RECURSIVE NullishSum(_)
NullishSum(c) ==
  IF c = <<>> THEN 0
  ELSE (IF Head(c).discountPrice # <<>> THEN Head(c).discountPrice[1]
        ELSE Head(c).price) * Head(c).quantity + NullishSum(Tail(c))

\* sum of (discountPrice if defined and not 0, else price) * quantity
RECURSIVE NonZeroSum(_)
NonZeroSum(c) ==
  IF c = <<>> THEN 0
  ELSE (IF Head(c).discountPrice \notin { <<>>, <<0>> }
        THEN Head(c).discountPrice[1]
        ELSE Head(c).price) * Head(c).quantity + NonZeroSum(Tail(c))

\* C1 as stated: the subtotal is the sum over the cart lines of
\* (discountPrice ?? price) * quantity, a discountPrice of 0 counting as present
C1_SubtotalNullish == RenderedSubTotal = NullishSum(cart)

\* C1 amended: the subtotal is the sum over the cart lines of the unit price
\* times the quantity, the unit price being discountPrice when it is defined
\* and not 0, and price otherwise
C1_SubtotalNonZeroDiscount == RenderedSubTotal = NonZeroSum(cart)

\* a cart of two lines, one with a cleared (0) discount price, one with a
\* real discount price and a quantity of 2
C1_Witness ==
  /\ Len(cart) = 2
  /\ \E i, j \in 1..2 :
       /\ cart[i].discountPrice = <<0>>
       /\ Truthy(cart[j].discountPrice) /\ cart[j].quantity = 2

\* C2: the total is max(0, subtotal - discount), never negative, whatever
\* the cart and the applied voucher
C2_TotalIsClampedDifference ==
  /\ RenderedTotal >= 0
  /\ RenderedTotal >= RenderedSubTotal * 100 - RenderedDiscount
  /\ RenderedTotal \in { 0, RenderedSubTotal * 100 - RenderedDiscount }

\* a voucher worth more than the subtotal is applied to a non-empty cart
C2_Witness ==
  /\ route = "cart" /\ cart # <<>> /\ appliedVoucher # <<>>
  /\ RenderedDiscount > RenderedSubTotal * 100
  /\ RenderedTotal = 0

\* round-half-up of n / d, stated by its bounds: the integer r with
\* r - 1/2 <= n/d < r + 1/2
IsRounded(r, n, d) == 2 * d * r - d <= 2 * n /\ 2 * n < 2 * d * r + d

\* C3 as stated: with a PERCENT voucher of value v applied the discount is
\* the integer round(subtotal * v / 100), with a FIXED voucher it is v, and
\* discount and total are whole currency units
C3_DiscountIsRoundedInteger ==
  appliedVoucher # <<>> =>
    /\ RenderedDiscount % 100 = 0
    /\ RenderedTotal % 100 = 0
    /\ IF appliedVoucher[1].type = "PERCENT"
       THEN IsRounded(RenderedDiscount \div 100,
                      RenderedSubTotal * appliedVoucher[1].value, 100)
       ELSE RenderedDiscount = appliedVoucher[1].value * 100

\* the apply button was pressed in the step, with or without a code typed
ApplyPressed == last'.op \in { "applyVoucher:used", "applyVoucher:invalid",
                               "applyVoucher:empty" }
ApplyPressedWithCode == last'.op \in { "applyVoucher:used",
                                       "applyVoucher:invalid" }

\* the typed code is the code of no active voucher
NoActiveMatch ==
  ~ \E v \in Elements(vouchers) :
       v.isActive /\ v.code = toUpperCase(voucherCode)

NoDiscountAfter ==
  /\ appliedVoucher' = <<>>
  /\ discountAmount(subTotal(cart'), appliedVoucher') = 0
  /\ total(subTotal(cart'), discountAmount(subTotal(cart'), appliedVoucher'))
       = subTotal(cart') * 100

\* C4 as stated: applying a code that matches no active voucher leaves
\* discount = 0 and total = subtotal, whatever voucher was applied before
C4_NoMatchClearsDiscount ==
  [][ApplyPressed /\ NoActiveMatch => NoDiscountAfter]_vars

\* C4 amended: applying a non-empty code that matches no active voucher
\* leaves discount = 0 and total = subtotal, whatever voucher was applied
\* before, every time it is applied
C4_NoMatchOfTypedCodeClearsDiscount ==
  [][ApplyPressedWithCode /\ NoActiveMatch => NoDiscountAfter]_vars

\* the code of an inactive voucher was applied and reported invalid
C4_Witness ==
  /\ last.op = "applyVoucher:invalid"
  /\ \E v \in Elements(vouchers) : ~ v.isActive /\ v.code = voucherCode
  /\ appliedVoucher = <<>>

\* a checkout was completed in the step (gateway or messaging branch)
Completed == last'.op \in { "checkout:tripay", "checkout:whatsapp" }
Rejected == last'.op \in { "checkout:noPayment", "checkout:emptyCart" }

\* the affiliates whose code is the session's referral code, and are active
MatchesActive(i) ==
  /\ referralCode # <<>>
  /\ affiliates[i].code = referralCode[1]
  /\ affiliates[i].isActive

\* C5: at a completed checkout whose referral code is an active affiliate's,
\* the commission is round(S * rate / 100) for the subtotal S the order is
\* priced with; that affiliate's totalEarnings grows by it and every other
\* affiliate record is unchanged
C5_CommissionCreditedOnSubtotal ==
  [][Completed =>
       \A i \in 1..Len(affiliates) : MatchesActive(i) =>
         /\ last'.subTotal = NonZeroSum(cart)
         /\ last'.total \in { 0, last'.subTotal * 100 - last'.discountAmount }
         /\ IsRounded(last'.commission,
                      NonZeroSum(cart) * affiliates[i].commissionRate, 100)
         /\ Len(affiliates') = Len(affiliates)
         /\ affiliates'[i] =
              [affiliates[i] EXCEPT !.totalEarnings = @ + last'.commission]
         /\ \A j \in 1..Len(affiliates) : j # i => affiliates'[j] = affiliates[j]
    ]_vars

\* a checkout with a voucher applied credited a commission that round-half-up
\* takes above the exact quotient, while another affiliate exists
C5_Witness ==
  /\ last.op = "checkout:whatsapp"
  /\ last.credited # <<>>
  /\ last.discountAmount > 0
  /\ last.commission * 100 > last.subTotal * 10
  /\ Len(affiliates) = 2

\* C6: a checkout without a referral code, with a code no affiliate has, or
\* with the code of an inactive affiliate credits nothing and leaves the
\* affiliates, in memory and in the persistent store, as they were
C6_NoCreditWithoutActiveAffiliate ==
  [][Completed /\ (\A i \in 1..Len(affiliates) : ~ MatchesActive(i)) =>
       /\ last'.commission = 0
       /\ affiliates' = affiliates
       /\ store'.ds_affiliates = store.ds_affiliates
       /\ store'.ds_affiliates = << affiliates' >>
    ]_vars

\* a checkout was completed under the code of an inactive affiliate
C6_Witness ==
  /\ last.op \in { "checkout:tripay", "checkout:whatsapp" }
  /\ referralCode # <<>>
  /\ \E a \in Elements(affiliates) : a.code = referralCode[1] /\ ~ a.isActive

\* String.prototype.trim
RECURSIVE TrimLeft(_)
TrimLeft(s) == IF s # <<>> /\ Head(s) = " " THEN TrimLeft(Tail(s)) ELSE s
RECURSIVE TrimRight(_)
TrimRight(s) ==
  IF s # <<>> /\ s[Len(s)] = " " THEN TrimRight(SubSeq(s, 1, Len(s) - 1))
  ELSE s

\* the canonical form of a code: upper case, surrounding whitespace removed
Canonical(s) == toUpperCase(TrimLeft(TrimRight(s)))

\* C7 as stated: a referral code whose canonical form is an active
\* affiliate's code credits that affiliate at checkout
C7_CanonicalCodeIsCredited ==
  [][Completed /\ referralCode # <<>> =>
       \A i \in 1..Len(affiliates) :
         (affiliates[i].isActive
            /\ affiliates[i].code = Canonical(referralCode[1])) =>
           /\ last'.credited = << affiliates[i].id >>
           /\ affiliates'[i].totalEarnings =
                affiliates[i].totalEarnings + last'.commission
    ]_vars

RECURSIVE SumEarnings(_)
SumEarnings(affs) ==
  IF affs = <<>> THEN 0 ELSE Head(affs).totalEarnings + SumEarnings(Tail(affs))

\* C8: a completed checkout under an active affiliate's code raises that
\* affiliate's totalEarnings once, by the checkout's commission; a rejected
\* checkout raises nothing, and nothing else raises an affiliate's earnings
C8_CreditedExactlyOnce ==
  [][/\ Completed =>
          \A i \in 1..Len(affiliates) : MatchesActive(i) =>
            /\ SumEarnings(affiliates') =
                 SumEarnings(affiliates) + last'.commission
            /\ affiliates'[i].totalEarnings - affiliates[i].totalEarnings
                 = last'.commission
            /\ IsRounded(affiliates'[i].totalEarnings
                           - affiliates[i].totalEarnings,
                         subTotal(cart) * affiliates[i].commissionRate, 100)
     /\ Rejected => affiliates' = affiliates /\ store' = store /\ cart' = cart
     /\ affiliates' # affiliates => Completed
    ]_vars

\* the automated-gateway branch credited a commission
C8_Witness ==
  /\ last.op = "checkout:tripay"
  /\ last.credited # <<>>
  /\ last.commission > 0
  /\ \E a \in Elements(affiliates) :
       << a.id >> = last.credited /\ a.totalEarnings >= last.commission

\* an affiliate of the step's first state, found again by its code in the
\* step's second state, has not lost earnings
KeepsEarnings ==
  \A i \in 1..Len(affiliates), j \in 1..Len(affiliates') :
    affiliates'[j].code = affiliates[i].code =>
      affiliates'[j].totalEarnings >= affiliates[i].totalEarnings

NonNegativeEarnings(affs) ==
  \A i \in 1..Len(affs) : affs[i].totalEarnings >= 0

\* C9: across checkouts, pulls and pushes every affiliate's totalEarnings is
\* non-negative, and no step (commission credit, pull, push id write-back)
\* leaves an affiliate with a smaller totalEarnings than it had before
C9_EarningsNeverDecrease ==
  [][NonNegativeEarnings(affiliates') /\ KeepsEarnings]_vars

\* every request of pull cycle k was answered, and none with an error
EveryFetchSucceeded(k) ==
  /\ pulls[k].stage = "done"
  /\ Len(pulls[k].answered) = Len(PullStages)
  /\ \A i \in 1..Len(pulls[k].answered) : pulls[k].answered[i]

\* C10: after a pull cycle in which every fetch succeeded, products,
\* vouchers, affiliates and payment methods, in memory and in the persistent
\* store, equal the field-mapped remote collections, also when the remote
\* collection is empty and the local one was not
C10_PullOverwritesEveryList ==
  \A k \in 1..Len(pulls) : EveryFetchSucceeded(k) =>
    /\ products = mappedProducts(remote.products)
    /\ vouchers = mappedVouchers(remote.vouchers)
    /\ affiliates = mappedAffiliates(remote.affiliates)
    /\ paymentMethods = mappedPayments(remote.payment_methods)
    /\ store.ds_products = << products >>
    /\ store.ds_vouchers = << vouchers >>
    /\ store.ds_affiliates = << affiliates >>
    /\ store.ds_payments = << paymentMethods >>

\* cycle k applies the remote settings row in this step
AppliesSettingsRow(k) ==
  /\ pulls[k].stage = "settings"
  /\ pulls'[k].answered = Append(pulls[k].answered, TRUE)
  /\ single(remote.store_settings) # <<>>

\* C11: when a pull applies the remote settings row, the credentials after
\* the merge are the credentials held locally at the moment of the merge and
\* the store fields take the values of the remote row, also when the
\* credentials were saved while the pull was in flight
C11_MergeKeepsLocalCredentials ==
  [][\A k \in 1..Len(pulls) : AppliesSettingsRow(k) =>
       /\ settings'.supabaseUrl = settings.supabaseUrl
       /\ settings'.supabaseKey = settings.supabaseKey
       /\ settings'.storeName = remote.store_settings[1].store_name
       /\ store'.ds_settings = << settings' >>
    ]_vars

\* a request of cycle k is answered with an error in this step
FetchFails(k) == pulls'[k].answered = Append(pulls[k].answered, FALSE)

\* a request of cycle k was answered with an error before
HasFailed(k) ==
  \E i \in 1..Len(pulls[k].answered) : ~ pulls[k].answered[i]

\* C12: when a fetch of a pull cycle (products, vouchers, affiliates,
\* settings or payment methods) fails, the failure is stored as the fetch
\* error, the step applies nothing and does not set the connected flag, what
\* the cycle applied before stays, and the cycle takes no further step
C12_FailedFetchAbortsCycle ==
  [][\A k \in 1..Len(pulls) :
       /\ FetchFails(k) =>
            /\ pulls'[k].stage = "failed"
            /\ fetchError' # <<>>
            /\ isCloudConnected' = isCloudConnected
            /\ appVars' = appVars
            /\ store' = store
       /\ HasFailed(k) => pulls'[k] = pulls[k]
    ]_vars

\* the sync states, read from the client, the connected flag and the error
DISCONNECTED ==
  supabaseOf(settings) = <<>> /\ ~ isCloudConnected /\ fetchError = <<>>
CONNECTING ==
  supabaseOf(settings) # <<>> /\ ~ isCloudConnected /\ fetchError = <<>>
SYNCED ==
  supabaseOf(settings) # <<>> /\ isCloudConnected /\ fetchError = <<>>
ERROR ==
  supabaseOf(settings) # <<>> /\ ~ isCloudConnected /\ fetchError # <<>>

\* the latest pull cycle started for the current client has succeeded
LatestPullSucceeded ==
  \E k \in 1..Len(pulls) :
    /\ << pulls[k].supabase >> = supabaseOf(settings)
    /\ pulls[k].stage = "done"
    /\ \A j \in (k + 1)..Len(pulls) :
         << pulls[j].supabase >> # supabaseOf(settings)

\* C13: in every reachable state the sync status is one of DISCONNECTED,
\* CONNECTING, SYNCED, ERROR; the connected flag is set only with a client
\* whose latest pull succeeded and never together with a fetch error, also
\* after the credentials were changed or removed
C13_StatusIsOneOfFour ==
  /\ DISCONNECTED \/ CONNECTING \/ SYNCED \/ ERROR
  /\ isCloudConnected => LatestPullSucceeded

\* the place of a push stage in the order of the upserts
StageRank(stage) ==
  CASE stage = "products"   -> 1
    [] stage = "vouchers"   -> 2
    [] stage = "affiliates" -> 3
    [] stage = "settings"   -> 4
    [] stage = "payments"   -> 5
    [] OTHER                -> 6

\* the upsert push k waits for is answered in this step
PushAnswered(k) ==
  /\ pushes[k].stage \notin { "done", "failed" }
  /\ pushes'[k].stage # pushes[k].stage

\* C14: a push sends its upserts in the order products, vouchers, affiliates,
\* settings, payment methods, one at a time, the next only with the answer to
\* the one before; an upsert that reports an error ends the push, is reported
\* to the operator and leaves the remote tables as the earlier upserts of the
\* push left them; a push that ended sends nothing more
C14_PushInOrderStopsAtFirstFailure ==
  [][\A k \in 1..Len(pushes) :
       /\ pushes[k].stage \in { "done", "failed" } =>
            pushes'[k].stage = pushes[k].stage
       /\ ~ PushAnswered(k) => pushes'[k].rows = pushes[k].rows
       /\ PushAnswered(k) =>
            /\ StageRank(pushes'[k].stage) > StageRank(pushes[k].stage)
            /\ IF last'.op = "push:failed"
               THEN /\ pushes'[k].stage = "failed"
                    /\ pushes'[k].rows = <<>>
                    /\ remote' = remote
               ELSE /\ pushes'[k].stage # "failed"
                    /\ remote' =
                         [remote EXCEPT ![TableOf(pushes[k].stage)] =
                            upsert(@, pushes[k].rows)]
    ]_vars

\* a push failed at its affiliates or a later upsert: the vouchers it sent
\* before are in the remote table, its payment methods are not
C14_Witness ==
  /\ last.op = "push:failed"
  /\ \E i \in 1..Len(remote.vouchers) : remote.vouchers[i].code = HEMAT20K
  /\ \A i \in 1..Len(remote.payment_methods) :
       remote.payment_methods[i].type # "TRIPAY"

\* C15: the remote store is written only by a push the operator started:
\* a step that changes a remote table is the answer to an upsert of a running
\* push; no admin save or delete, checkout, settings save or pull step
\* changes it
C15_OnlyPushWritesRemote ==
  [][remote' # remote =>
       /\ last'.op \in { "push:step", "push:done" }
       /\ \E k \in 1..Len(pushes) :
            /\ PushAnswered(k)
            /\ remote' = [remote EXCEPT ![TableOf(pushes[k].stage)] =
                            upsert(@, pushes[k].rows)]
    ]_vars

\* an upload has changed the remote tables after a commission was credited,
\* a voucher was created and the store was renamed
C15_Witness ==
  /\ last.op = "push:done"
  /\ remote # UploadedRemote
  /\ checkouts > 0
  /\ settings.storeName = "Toko Baru"
  /\ \E i \in 1..Len(remote.vouchers) : remote.vouchers[i].code = BIG

\* C16: every row a push sends for products, vouchers, affiliates and
\* payment methods has a canonical id (36 characters, hyphenated
\* hexadecimal), whatever ids the local records had, legacy short ids
\* included
C16_PushedRowsHaveCanonicalIds ==
  \A k \in 1..Len(pushes) :
    pushes[k].stage \in { "products", "vouchers", "affiliates", "payments" } =>
      \A i \in 1..Len(pushes[k].rows) : isValidUUID(pushes[k].rows[i].id)

\* a push sends the five default payment methods, whose local ids were the
\* legacy '1' to '5' at the click
C16_Witness ==
  \E k \in 1..Len(pushes) :
    /\ pushes[k].stage = "payments"
    /\ Len(pushes[k].rows) = 5
    /\ \A i \in 1..5 : ~ isValidUUID(pushes[k].paymentMethods[i].id)
    /\ pushes[k].paymentMethods[1].id = <<"1">>

\* the local collection a push stage writes back
LocalOf(stage, ps, vs, as, ms) ==
  CASE stage = "products"   -> ps
    [] stage = "vouchers"   -> vs
    [] stage = "affiliates" -> as
    [] stage = "payments"   -> ms

\* push k reaches the upsert of a list collection in this step
EntersListStage(k) ==
  /\ k \in 1..Len(pushes')
  /\ pushes'[k].stage \in { "products", "vouchers", "affiliates", "payments" }
  /\ k \in 1..Len(pushes) => pushes[k].stage # pushes'[k].stage

Reloaded ==
  [settings       |-> getSettings(store, env),
   products       |-> get(store, "ds_products", initialProducts),
   paymentMethods |-> get(store, "ds_payments", initialPayments),
   vouchers       |-> get(store, "ds_vouchers", initialVouchers),
   affiliates     |-> get(store, "ds_affiliates", initialAffiliates)]

\* C18: at every point a page reload restores each of the five managed
\* collections exactly as it is in memory
C18_ReloadRestoresMemory ==
  /\ Reloaded.settings = settings
  /\ Reloaded.products = products
  /\ Reloaded.paymentMethods = paymentMethods
  /\ Reloaded.vouchers = vouchers
  /\ Reloaded.affiliates = affiliates

\* the lists read back are the lists that were saved
ListsReadBack ==
  /\ \A ps \in ProductLists :
       saveProducts(ps) => get(store', "ds_products", initialProducts) = ps
  /\ \A ms \in PaymentLists :
       savePayments(ms) => get(store', "ds_payments", initialPayments) = ms
  /\ \A vs \in VoucherLists :
       saveVouchers(vs) => get(store', "ds_vouchers", initialVouchers) = vs
  /\ \A as \in AffiliateLists :
       saveAffiliates(as)
         => get(store', "ds_affiliates", initialAffiliates) = as

\* C19: for every collection key, a value saved through DataService and read
\* back with no write in between is the value that was saved, an empty list
\* and settings with empty credentials included
C19_ReadBackReturnsSaved ==
  [][ /\ ListsReadBack
      /\ \A s \in SettingsValues :
           saveSettings(s) => getSettings(store', env') = s
    ]_vars

\* the handler of this step refused its input
RejectedInput ==
  last'.op \in { "saveProduct:rejected", "saveVoucher:rejected",
                 "saveAffiliate:rejected", "applyVoucher:invalid",
                 "checkout:noPayment", "checkout:emptyCart" }

KeepsCollectionsAndCart ==
  UNCHANGED << settings, products, paymentMethods, vouchers, affiliates,
               store, cart >>

\* C20 as stated: a rejected admin save, apply-voucher or checkout leaves the
\* managed collections, the cart, the applied voucher and the affiliates as
\* they were
C20_RejectedActionChangesNothing ==
  [][RejectedInput => KeepsCollectionsAndCart /\ UNCHANGED appliedVoucher]_vars

\* C20 amended: a rejected action leaves the managed collections, the cart
\* and the affiliates as they were; applying a code that matches no active
\* voucher removes the applied voucher, every other rejection keeps it
C20_RejectedActionKeepsCollections ==
  [][RejectedInput =>
       /\ KeepsCollectionsAndCart
       /\ IF last'.op = "applyVoucher:invalid"
          THEN appliedVoucher' = <<>>
          ELSE UNCHANGED appliedVoucher
    ]_vars

\* a code that matches no active voucher was applied to a filled cart and the
\* cart shows no voucher
C20_Witness ==
  /\ last.op = "applyVoucher:invalid"
  /\ cart # <<>>
  /\ voucherCode # <<>>
  /\ findVoucher(vouchers, voucherCode) = <<>>
  /\ appliedVoucher = <<>>

\* C21: no two vouchers with isActive = true have the same upper-case code
C21_ActiveCodesUnique ==
  \A i, j \in 1..Len(vouchers) :
    (i # j /\ vouchers[i].isActive /\ vouchers[j].isActive)
      => toUpperCase(vouchers[i].code) # toUpperCase(vouchers[j].code)

\* the shopping handlers can be taken in the current state
ShoppingEnabled ==
  /\ (route = "home" /\ products # <<>> /\ cart = <<>>)
       => ENABLED addToCart(products[1])
  /\ (route = "cart" /\ cart # <<>>) => ENABLED handleApplyVoucher
  /\ (route = "cart" /\ cart # <<>> /\ checkouts < MaxCheckouts)
       => ENABLED handleCheckout

\* a checkout with a chosen payment method completes: the cart is cleared
\* and the view returns to the shop
ShoppingCompletes ==
  (route = "cart" /\ cart # <<>> /\ selectedPayment # <<>>
     /\ last'.op \in { "checkout:tripay", "checkout:whatsapp" })
    => cart' = <<>> /\ route' = "home" /\ checkouts' = checkouts + 1

\* a fetch of some pull cycle fails in this step
SomeFetchFails == \E k \in 1..Len(pulls) : FetchFails(k)

\* C22: add-to-cart, apply-voucher and checkout are enabled and complete in
\* every sync state, and a failing fetch of a pull changes neither the cart,
\* nor the applied voucher, nor a local collection or its stored copy
C22_ShoppingWorksInEverySyncState ==
  /\ []ShoppingEnabled
  /\ [][ShoppingCompletes]_vars
  /\ [][SomeFetchFails =>
          UNCHANGED << cart, appliedVoucher, voucherCode, selectedPayment,
                       settings, products, paymentMethods, vouchers,
                       affiliates, store >>]_vars

\* a checkout with a voucher applied has completed while the fetch error of
\* the failed pull is shown
C22_Witness ==
  /\ ERROR
  /\ last.op \in { "checkout:tripay", "checkout:whatsapp" }
  /\ last.discountAmount > 0
  /\ cart = <<>>

CheckoutCompleted == last'.op \in { "checkout:tripay", "checkout:whatsapp" }

CollectionKeys ==
  { "ds_settings", "ds_products", "ds_payments", "ds_vouchers",
    "ds_affiliates" }

\* C23: the cart is empty after every completed checkout, by the gateway
\* branch and by the messaging branch, and after a reload; localStorage holds
\* the five collection keys only, and a change of the cart changes none of
\* them, except the affiliates a checkout credits
C23_CartIsTransient ==
  [][ /\ CheckoutCompleted => cart' = <<>>
      /\ last'.op = "reload" => cart' = <<>>
      /\ DOMAIN store' = CollectionKeys
      /\ cart' # cart =>
           \A key \in CollectionKeys :
             \/ store'[key] = store[key]
             \/ /\ key = "ds_affiliates"
                /\ CheckoutCompleted
                /\ store'[key] = << affiliates' >>
    ]_vars

\* a checkout by the gateway branch has completed and left an empty cart
C23_Witness ==
  /\ last.op = "checkout:tripay"
  /\ last.subTotal > 0
  /\ cart = <<>>
  /\ route = "home"

\* the step handles two submissions of the rendered cart under the code of
\* the active affiliate i
SubmittedTwiceFor(i) == last'.op = "checkout:twice" /\ MatchesActive(i)

\* C24 as stated: two submissions of the same cart from the same rendered
\* view, under an active affiliate's code, raise the affiliate's
\* totalEarnings by twice the commission
C24_DoubleSubmitCreditsTwice ==
  [][\A i \in 1..Len(affiliates) : SubmittedTwiceFor(i) =>
       affiliates'[i].totalEarnings
         = affiliates[i].totalEarnings + 2 * last'.commission
    ]_vars

\* C24 amended: two submissions of the same cart from the same rendered view
\* raise the affiliate's totalEarnings by the commission once, the second
\* setting the value the first has set, and change no other affiliate
C24_DoubleSubmitCreditsOnce ==
  [][\A i \in 1..Len(affiliates) : SubmittedTwiceFor(i) =>
       /\ affiliates'[i].totalEarnings
            = affiliates[i].totalEarnings + last'.commission
       /\ SumEarnings(affiliates') = SumEarnings(affiliates) + last'.commission
       /\ IsRounded(last'.commission,
                    subTotal(cart) * affiliates[i].commissionRate, 100)
       /\ store'.ds_affiliates = << affiliates' >>
       /\ cart' = <<>>
    ]_vars

\* a cart was submitted twice under an active affiliate's code and a
\* commission was credited
C24_Witness ==
  /\ last.op = "checkout:twice"
  /\ last.credited # <<>>
  /\ last.commission > 0
  /\ checkouts = 2
  /\ \E a \in Elements(affiliates) :
       << a.id >> = last.credited /\ a.totalEarnings >= last.commission

\* cycle k, already superseded by a later cycle, gets an answer in this step
SupersededAnswers(k) ==
  /\ k < Len(pulls)
  /\ pulls'[k] # pulls[k]

\* C25: once a change of credentials has started a new pull cycle, no answer
\* to the superseded cycle changes a local collection, the settings, the
\* connected flag or the fetch error
C25_SupersededCycleAppliesNothing ==
  [][\A k \in 1..Len(pulls) : SupersededAnswers(k) =>
       UNCHANGED << products, vouchers, affiliates, paymentMethods, settings,
                    isCloudConnected, fetchError, store >>
    ]_vars

\* C26: when the last upsert of a push has succeeded, each remote table
\* holds exactly the rows of the local collection it was pushed from, so a
\* record deleted locally before the push is not in the remote table
C26_PushOverwritesRemote ==
  [][last'.op = "push:done" =>
       /\ remote'.products = dbProducts(products')
       /\ remote'.vouchers = dbVouchers(vouchers')
       /\ remote'.affiliates = dbAffs(affiliates')
       /\ remote'.store_settings = dbSettings(settings')
       /\ remote'.payment_methods = dbPayments(paymentMethods')
    ]_vars

\* C27: whenever the cart view shows a total with a nonzero voucher
\* discount, the applied voucher is a voucher of the current collection with
\* isActive = true and the same code, type and value
C27_DiscountFromCurrentVoucher ==
  (route = "cart" /\ cart # <<>> /\ RenderedDiscount > 0) =>
    \E i \in 1..Len(vouchers) :
      /\ vouchers[i].isActive
      /\ vouchers[i].code = appliedVoucher[1].code
      /\ vouchers[i].type = appliedVoucher[1].type
      /\ vouchers[i].value = appliedVoucher[1].value

\* the pushes that have started and not yet returned
InFlight == { k \in 1..Len(pushes) : pushes[k].stage \notin { "done", "failed" } }

\* C28: at most one push is in flight, and while one is in flight the upload
\* button of the Database view is disabled, so that no second push can start,
\* also after the operator has left the view and opened it again
C28_AtMostOnePushInFlight ==
  /\ Cardinality(InFlight) <= 1
  /\ (InFlight # {} /\ route = "database" /\ supabaseOf(settings) # <<>>)
       => isSyncing

\* C29: the write-back of a push stage leaves the local collection with the
\* content it has at that moment, non-canonical ids replaced, whatever was
\* changed in it since the push started
C29_WriteBackKeepsCurrentContent ==
  [][\A k \in 1..Len(pushes') : EntersListStage(k) =>
       LET stage == pushes'[k].stage IN
       LocalOf(stage, products', vouchers', affiliates', paymentMethods')
         = ensureUuidAll(LocalOf(stage, products, vouchers, affiliates,
                                 paymentMethods), uuids).fixed
    ]_vars

\* C30: while an affiliate is logged in, the id held in the session is the
\* id of exactly one record of the affiliate collection
C30_SessionAffiliateResolves ==
  (user # <<>> /\ user[1].role = "AFFILIATE") =>
    Cardinality({ i \in 1..Len(affiliates) :
                    << affiliates[i].id >> = user[1].id }) = 1

====
